---- MODULE Spec2Model ----
(***************************************************************************)
(* A model of the retrieval core of the question-answering service in      *)
(* api.py: the similarity ranker (cosine_similarity, find_top_k_similar),  *)
(* the link synthesizer (slugify, generate_link) and the request handler   *)
(* (ask_question).                                                         *)
(*                                                                         *)
(* Python strings are sequences whose elements are one-character strings   *)
(* (and a few multi-character tokens for fixed literals such as a base     *)
(* URL).  Python's None is NoneStr for a string-valued field and NoneInt   *)
(* for an integer-valued one.                                              *)
(***************************************************************************)
EXTENDS Integers, Sequences, FiniteSets, TLC

VARIABLES
    platform,         \* which os.path the interpreter binds: "posix" or "nt"
    doc_embeddings,   \* the in-memory store (api.py:34), a sequence of records
    \* ---- ranker harness ----
    rank_query,       \* the query vector handed to find_top_k_similar
    rank_k,           \* its k
    rank_out,         \* the store indices it returned, in output order
    rank_pc,          \* "ready" | "ranked"
    \* ---- link synthesizer harness ----
    link_rec,         \* the record handed to generate_link
    link_out,         \* its outcome: [raised, url]
    link_pc,          \* "ready" | "done"
    \* ---- the request handler ask_question ----
    ask_pc,           \* where the handler stands: "idle", "embedding", "fetching",
                      \* "completing", "retrying", "responded", "raised"
    request,          \* the QueryRequest: [image, link, question]
    query_embedding,  \* the embedding call's result
    top_docs,         \* find_top_k_similar's result
    context_parts,    \* the list joined into the context
    generated_links,  \* the list built at api.py:138-150
    fetched_content,  \* what fetch_url_content returned
    context,          \* the joined context string
    messages,         \* what the completion call is handed
    response,         \* the handler's return value
    failures,         \* history: the external calls that raised in this request
    escaped,          \* the exception that left the handler, "" when none
    \* ---- start-up: the store file and its load ----
    store_file,       \* the records of embeddings/all_embeddings.json
    load_pc,          \* "unloaded" | "loaded" | "queried"
    load_out,         \* the outcome of a query over the loaded store: [docs, raised]
    \* ---- slugify harness ----
    slug_in,          \* the string slugify was first called on
    slug_text,        \* the string slugify is applied to next (its last result)
    slug_prev,        \* the string the last pass was applied to
    slug_passes       \* how many times slugify has been applied

rank_vars == <<rank_query, rank_k, rank_out, rank_pc>>

link_vars == <<link_rec, link_out, link_pc>>

ask_locals == <<query_embedding, top_docs, context_parts, generated_links,
                fetched_content, context, messages>>

ask_vars == <<ask_pc, request, query_embedding, top_docs, context_parts, generated_links,
              fetched_content, context, messages, response, failures, escaped>>

load_vars == <<store_file, load_pc, load_out>>

slug_vars == <<slug_in, slug_text, slug_prev, slug_passes>>

vars == <<platform, doc_embeddings, rank_query, rank_k, rank_out, rank_pc,
          link_rec, link_out, link_pc, ask_pc, request, query_embedding, top_docs,
          context_parts, generated_links, fetched_content, context, messages,
          response, failures, escaped, store_file, load_pc, load_out,
          slug_in, slug_text, slug_prev, slug_passes>>

-----------------------------------------------------------------------------
(* Bounds of the model. *)

MaxStore == 7
MaxPathLen == 4
MaxAskStore == 6

-----------------------------------------------------------------------------
(* Python values. *)

NoneStr == <<"None">>
NoneInt == -1

\* Python truthiness of an Optional[str]: None and "" are falsy.
TruthyStr(s) == s /= NoneStr /\ s /= <<>>

\* Python truthiness of an Optional[int]: None and 0 are falsy.
TruthyInt(n) == n /= NoneInt /\ n /= 0

Min(a, b) == IF a <= b THEN a ELSE b

Reverse(s) == [i \in 1..Len(s) |-> s[Len(s) + 1 - i]]

RECURSIVE SeqsUpTo(_, _)
\* All sequences over S of length 0..n.
SeqsUpTo(S, n) ==
    IF n = 0 THEN {<<>>}
    ELSE LET shorter == SeqsUpTo(S, n - 1)
         IN  shorter \cup {Append(s, x) : s \in {t \in shorter : Len(t) = n - 1}, x \in S}

-----------------------------------------------------------------------------
(* The similarity ranker. *)

Dot(a, b) == a[1] * b[1] + a[2] * b[2]

\* |a|^2; numpy's norm is its square root.
NormSq(a) == Dot(a, a)

\* A score is the float dot / (|vec1| * |vec2|).  It is kept exactly, as the
\* fraction sign(dot) * dot^2 / (|vec1|^2 * |vec2|^2), which orders and
\* equates scores as the floats do for the small integer vectors used here.
\* A zero norm makes the float division 0.0 / 0.0, which is NaN.
cosine_similarity(vec1, vec2) ==
    LET d   == Dot(vec1, vec2)
        den == NormSq(vec1) * NormSq(vec2)
    IN  IF den = 0
        THEN [den |-> 1, nan |-> TRUE, num |-> 0]
        ELSE [den |-> den, nan |-> FALSE, num |-> (IF d < 0 THEN -(d * d) ELSE d * d)]

\* Float a < b: false as soon as either side is NaN.
ScoreLt(a, b) == ~a.nan /\ ~b.nan /\ a.num * b.den < b.num * a.den

\* Float a == b: false as soon as either side is NaN.
ScoreEq(a, b) == ~a.nan /\ ~b.nan /\ a.num * b.den = b.num * a.den

\* Float a >= b.
ScoreGe(a, b) == ~a.nan /\ ~b.nan /\ a.num * b.den >= b.num * a.den

\* The comparison list.sort makes between two (score, doc) entries under
\* key=lambda x: x[0]: the keys' <.
KeyLt(x, y) == ScoreLt(x[1], y[1])

RECURSIVE CountRunFrom(_, _, _)
\* count_run's scan: the run that starts at s[1] ends at the first i whose
\* comparison with its predecessor disagrees with the run's direction.
CountRunFrom(s, i, descending) ==
    IF i > Len(s) THEN Len(s)
    ELSE IF KeyLt(s[i], s[i - 1]) = descending
         THEN CountRunFrom(s, i + 1, descending)
         ELSE i - 1

\* listobject.c count_run: the length of the natural run at the head of s
\* and whether it is strictly descending.
count_run(s) ==
    IF Len(s) = 1 THEN [descending |-> FALSE, n |-> 1]
    ELSE LET d == KeyLt(s[2], s[1])
         IN  [descending |-> d, n |-> CountRunFrom(s, 3, d)]

RECURSIVE BinarySearch(_, _, _, _)
\* binarysort's do-while: the slot in s[l..r-1] where pivot goes.
BinarySearch(s, pivot, l, r) ==
    LET p  == l + ((r - l) \div 2)
        l2 == IF KeyLt(pivot, s[p]) THEN l ELSE p + 1
        r2 == IF KeyLt(pivot, s[p]) THEN p ELSE r
    IN  IF l2 < r2 THEN BinarySearch(s, pivot, l2, r2) ELSE l2

RECURSIVE binarysort(_, _)
\* listobject.c binarysort: s[1..start-1] is taken as sorted; every later
\* element is inserted at the slot the binary search gives it.
binarysort(s, start) ==
    IF start > Len(s) THEN s
    ELSE LET l == BinarySearch(s, s[start], 1, start)
         IN  binarysort(SubSeq(s, 1, l - 1) \o <<s[start]>> \o SubSeq(s, l, start - 1)
                          \o SubSeq(s, start + 1, Len(s)),
                        start + 1)

\* list.sort(key=..., reverse=True) for a list shorter than 64 elements:
\* reverse, find the head run (reversed in place when descending), binary
\* insertion of the rest, reverse again.
list_sort_reverse(s) ==
    IF Len(s) < 2 THEN s
    ELSE LET a      == Reverse(s)
             run    == count_run(a)
             b      == IF run.descending
                       THEN Reverse(SubSeq(a, 1, run.n)) \o SubSeq(a, run.n + 1, Len(a))
                       ELSE a
         IN  Reverse(binarysort(b, run.n + 1))

\* find_top_k_similar, as the indices into docs of the records it returns.
TopKIndices(query_vec, docs, k) ==
    LET scores == [i \in 1..Len(docs) |-> <<cosine_similarity(query_vec, docs[i].embedding), i>>]
        sorted == list_sort_reverse(scores)
    IN  [j \in 1..Min(k, Len(sorted)) |-> sorted[j][2]]

find_top_k_similar(query_vec, docs, k) ==
    LET idx == TopKIndices(query_vec, docs, k)
    IN  [j \in 1..Len(idx) |-> docs[idx[j]]]

\* The list docs sorted in place by descending score, as docs.sort would
\* leave it.
find_top_k_similar_docs_SortedInPlace(query_vec, docs, k) ==
    find_top_k_similar(query_vec, docs, Len(docs))

\* The list docs as the call find_top_k_similar(query_vec, docs, k) leaves it:
\* the function only iterates docs; what it appends to and sorts is its own
\* list scores (api.py:42-46).
find_top_k_similar_docs(query_vec, docs, k) == docs

-----------------------------------------------------------------------------
(* The link synthesizer. *)

UpperChars == <<"A", "B", "C", "D", "E", "F", "G", "H", "I", "J", "K", "L", "M",
                "N", "O", "P", "Q", "R", "S", "T", "U", "V", "W", "X", "Y", "Z">>

LowerChars == <<"a", "b", "c", "d", "e", "f", "g", "h", "i", "j", "k", "l", "m",
                "n", "o", "p", "q", "r", "s", "t", "u", "v", "w", "x", "y", "z">>

DigitChars == <<"0", "1", "2", "3", "4", "5", "6", "7", "8", "9">>

Range(f) == {f[i] : i \in DOMAIN f}

\* \s of the regular expressions.
Whitespace == {" ", "\t", "\n", "\r"}

UpperSet == Range(UpperChars)

\* str.lower on one character.
LowerChar(c) ==
    IF c \in UpperSet
    THEN LowerChars[CHOOSE i \in DOMAIN UpperChars : UpperChars[i] = c]
    ELSE c

SlugKeptSet == Range(LowerChars) \cup Range(DigitChars) \cup Whitespace \cup {"-"}

\* The characters re.sub(r'[^a-z0-9\s-]', '', text) keeps.
SlugKept(c) == c \in SlugKeptSet

SlugGapSet == Whitespace \cup {"-"}

\* The characters [\s-] of the second substitution.
SlugGap(c) == c \in SlugGapSet

RECURSIVE CollapseGaps(_)
\* re.sub(r'[\s-]+', '-', text): every maximal run of whitespace and hyphens
\* becomes one hyphen.
CollapseGaps(s) ==
    IF s = <<>> THEN <<>>
    ELSE IF SlugGap(s[1])
         THEN IF Len(s) > 1 /\ SlugGap(s[2])
              THEN CollapseGaps(Tail(s))
              ELSE <<"-">> \o CollapseGaps(Tail(s))
         ELSE <<s[1]>> \o CollapseGaps(Tail(s))

RECURSIVE LStrip(_, _)
LStrip(s, c) == IF s /= <<>> /\ s[1] = c THEN LStrip(Tail(s), c) ELSE s

\* str.strip(c) for a one-character argument.
Strip(s, c) == Reverse(LStrip(Reverse(LStrip(s, c)), c))

\* slugify with its two substitutions in the other order.
slugify_CollapseFirst(text) ==
    LET lowered == [i \in 1..Len(text) |-> LowerChar(text[i])]
    IN  Strip(SelectSeq(CollapseGaps(lowered), SlugKept), "-")

\* slugify on a str (called on None it raises AttributeError at text.lower();
\* generate_link below accounts for that).
slugify(text) ==
    LET lowered == [i \in 1..Len(text) |-> LowerChar(text[i])]
        kept    == SelectSeq(lowered, SlugKept)
    IN  Strip(CollapseGaps(kept), "-")

\* The largest index of s holding a character of set, 0 when there is none
\* (str.rfind, shifted by one).
LastIndexOf(s, set) ==
    IF \E i \in 1..Len(s) : s[i] \in set
    THEN CHOOSE i \in 1..Len(s) : s[i] \in set /\ \A j \in (i + 1)..Len(s) : s[j] \notin set
    ELSE 0

\* The path separators os.path honours: posixpath has sep '/' only, ntpath
\* has sep '\\' and altsep '/'.
PathSeps(plat) == IF plat = "nt" THEN {"/", "\\"} ELSE {"/"}

\* os.path.basename (drive letters, which only ntpath splits off, are outside
\* the path alphabet used here).
os_path_basename(p, plat) == SubSeq(p, LastIndexOf(p, PathSeps(plat)) + 1, Len(p))

\* os.path.splitext(p)[0] (genericpath._splitext): cut at the last dot when it
\* lies after the last separator and is not one of the leading dots of the
\* final component.
os_path_splitext_root(p, plat) ==
    LET sepIndex == LastIndexOf(p, PathSeps(plat))
        dotIndex == LastIndexOf(p, {"."})
    IN  IF dotIndex > sepIndex /\ \E j \in (sepIndex + 1)..(dotIndex - 1) : p[j] /= "."
        THEN SubSeq(p, 1, dotIndex - 1)
        ELSE p

\* s.split('\\')[-1]
AfterLastBackslash(s) == SubSeq(s, LastIndexOf(s, {"\\"}) + 1, Len(s))

RECURSIVE IntStr(_)
\* str(n) for an int n >= 0.
IntStr(n) == IF n < 10 THEN <<DigitChars[n + 1]>> ELSE IntStr(n \div 10) \o <<DigitChars[(n % 10) + 1]>>

ForumBase == <<"https://discourse.onlinedegree.iitm.ac.in/t/">>

CourseBase == <<"https://tds.s-anand.net/#/">>

DefaultUrl == CourseBase \o <<"R", "E", "A", "D", "M", "E">>

Returned(url) == [raised |-> "", url |-> url]

Raised(exc) == [raised |-> exc, url |-> <<>>]

\* generate_link's "course" branch on a present path (api.py:66-70).
CourseLink(source_path, plat) ==
    LET filename        == os_path_basename(source_path, plat)
        filename_no_ext == os_path_splitext_root(filename, plat)
        final_file      == AfterLastBackslash(filename_no_ext)
    IN  Returned(CourseBase \o slugify(final_file))

\* generate_link's "discourse" branch (api.py:59-63).  The slug is computed
\* from topic_title before topic_id and post_number are tested, so a missing
\* title raises whatever the ids are; the meta "slug" field is never read.
DiscourseLink(m) ==
    IF m.topic_title = NoneStr THEN Raised("AttributeError")
    ELSE IF TruthyInt(m.topic_id) /\ TruthyInt(m.post_number)
         THEN Returned(ForumBase \o slugify(m.topic_title) \o <<"/">> \o IntStr(m.topic_id)
                         \o <<"/">> \o IntStr(m.post_number))
         ELSE Returned(DefaultUrl)

\* generate_link with its second test dropped: every tag other than
\* "discourse" is handled as "course".
generate_link_ElseCourse(rec, plat) ==
    IF rec.source = "discourse" THEN DiscourseLink(rec.meta)
    ELSE IF rec.meta.source = NoneStr THEN Raised("TypeError")
         ELSE CourseLink(rec.meta.source, plat)

\* generate_link(record): the URL it returns, or the exception it raises.
\* A missing "source" key is the tag "None"; a missing "meta" key is a meta
\* with every field None (meta.get("meta", {}).get(...) is None either way).
generate_link(rec, plat) ==
    IF rec.source = "discourse" THEN DiscourseLink(rec.meta)
    ELSE IF rec.source = "course"
         THEN IF rec.meta.source = NoneStr THEN Raised("TypeError")
              ELSE CourseLink(rec.meta.source, plat)
         ELSE Returned(DefaultUrl)

-----------------------------------------------------------------------------
(* Records of the store (embeddings.py process_documents). *)

\* (Record fields are written in alphabetical order throughout.)
NoMeta == [post_number |-> NoneInt, slug |-> NoneStr, source |-> NoneStr,
           topic_id |-> NoneInt, topic_title |-> NoneStr]

\* The meta of a course record: the scraped markdown document, whose
\* "source" is the file's path relative to the course repository.
CourseMeta(path) ==
    [post_number |-> NoneInt, slug |-> NoneStr, source |-> path,
     topic_id |-> NoneInt, topic_title |-> NoneStr]

\* The meta of a forum record.
DiscourseMeta(topic_id, post_number, topic_title) ==
    [post_number |-> post_number, slug |-> NoneStr, source |-> NoneStr,
     topic_id |-> topic_id, topic_title |-> topic_title]

DocumentRecord(text, embedding, source, meta) ==
    [embedding |-> embedding, meta |-> meta, source |-> source, text |-> text]

Str_intro_md == <<"w", "e", "e", "k", "1", "/", "i", "n", "t", "r", "o", ".", "m", "d">>

Str_intro_md_nt == <<"w", "e", "e", "k", "1", "\\", "i", "n", "t", "r", "o", ".", "m", "d">>

Str_HiThere == <<"H", "i", " ", "T", "h", "e", "r", "e", "!">>

Str_hi_there == <<"h", "i", "-", "t", "h", "e", "r", "e">>

-----------------------------------------------------------------------------
(* The request handler ask_question (api.py:118-226). *)

TopK == 5

DisplayLen == 80

Separator == "\n\n---\n\n"

RECURSIVE Join(_, _)
\* sep.join(parts)
Join(parts, sep) ==
    IF parts = <<>> THEN <<>>
    ELSE IF Len(parts) = 1 THEN parts[1]
         ELSE parts[1] \o <<sep>> \o Join(Tail(parts), sep)

RECURSIVE StripSet(_, _)
StripSet(s, set) ==
    IF s /= <<>> /\ s[1] \in set THEN StripSet(Tail(s), set)
    ELSE IF s /= <<>> /\ s[Len(s)] \in set THEN StripSet(SubSeq(s, 1, Len(s) - 1), set)
         ELSE s

\* doc["text"][:80] + ("..." if len(doc["text"]) > 80 else "")
DisplayText(text) ==
    SubSeq(text, 1, Min(DisplayLen, Len(text)))
        \o (IF Len(text) > DisplayLen THEN <<"...">> ELSE <<>>)

Link(url, text) == [text |-> text, url |-> url]

RECURSIVE LinkLoopRaises(_, _)
\* The exception the loop "for doc in top_docs: url = generate_link(doc)"
\* raises: that of the first record generate_link raises on, "" when none.
LinkLoopRaises(docs, plat) ==
    IF docs = <<>> THEN ""
    ELSE LET exc == generate_link(docs[1], plat).raised
         IN  IF exc /= "" THEN exc ELSE LinkLoopRaises(Tail(docs), plat)

RECURSIVE AppendDocLinks(_, _, _)
\* The loop of api.py:139-142 and 221-225: a record's URL is appended, with
\* the record's display text, unless a link with that URL is in the list.
AppendDocLinks(links, docs, plat) ==
    IF docs = <<>> THEN links
    ELSE LET url == generate_link(docs[1], plat).url
         IN  AppendDocLinks(IF \E i \in 1..Len(links) : links[i].url = url
                            THEN links
                            ELSE Append(links, Link(url, DisplayText(docs[1].text))),
                            Tail(docs), plat)

\* api.py:218-220: "for urls in user_links" runs over the characters of the
\* link string, each becoming the url of one entry.
UserLinkEntries(user_links) ==
    IF TruthyStr(user_links)
    THEN [i \in 1..Len(user_links) |-> Link(<<user_links[i]>>, <<"check this discord post">>)]
    ELSE <<>>

\* api.py:216-225: the links of a successful response.
ResponseLinks(user_links, docs, plat) ==
    AppendDocLinks(UserLinkEntries(user_links), docs, plat)

\* api.py:149-150: the context part and the link added for fetched content.
ContentPart(user_links, content) == <<"Content from ">> \o user_links \o <<":\n">> \o content

UserLink(user_links) == Link(user_links, <<"User provided link: ">> \o user_links)

\* ContextParts that loses the last ranked record.
ContextParts_DropLast(docs) == [i \in 1..(Len(docs) - 1) |-> docs[i].text]

\* api.py:137: the texts of the ranked records, in rank order.
ContextParts(docs) == [i \in 1..Len(docs) |-> docs[i].text]

\* A string literal prefix is one token at the head of the sequence.
StartsWith(str, prefix) == str /= <<>> /\ str[1] = prefix

\* api.py:166-169: a bare base64 image gets a data URI prefix.
ImageUrl(user_image) ==
    IF ~StartsWith(user_image, "http://") /\ ~StartsWith(user_image, "https://")
          /\ ~StartsWith(user_image, "data:image/")
    THEN <<"data:", "image/webp", ";base64,">> \o user_image
    ELSE user_image

UserText(question, ctx) == <<"Question: ">> \o question \o <<"\n\nContext:\n">> \o ctx

\* api.py:156-184: the messages of the first completion call.
Messages(question, ctx, user_image) ==
    [image_url |-> IF TruthyStr(user_image) THEN ImageUrl(user_image) ELSE NoneStr,
     system |-> "You are a helpful teaching assistant. ...",
     user_text |-> UserText(question, ctx)]

\* api.py:199-202: the messages of the retry, without the image.
MessagesWithoutImage(question, ctx) ==
    [image_url |-> NoneStr,
     system |-> "You are a helpful teaching assistant. ...",
     user_text |-> UserText(question, ctx)]

\* ErrorResponse that returns the links collected so far instead of none.
ErrorResponse_KeepLinks(prefix, e) == [answer |-> <<prefix>> \o e, links |-> generated_links]

\* {"answer": f"<prefix>{str(e)}", "links": []}
ErrorResponse(prefix, e) == [answer |-> <<prefix>> \o e, links |-> <<>>]

\* api.py:195 and 216-226.
AnswerResponse(content) ==
    [answer |-> StripSet(content, Whitespace),
     links |-> ResponseLinks(request.link, top_docs, platform)]

NoRequest == [image |-> NoneStr, link |-> NoneStr, question |-> <<>>]

NoMessages == [image_url |-> NoneStr, system |-> "", user_text |-> <<>>]

NoResponse == [answer |-> <<>>, links |-> <<>>]

LocalsCleared ==
    /\ query_embedding = <<0, 0>>
    /\ top_docs = <<>>
    /\ context_parts = <<>>
    /\ generated_links = <<>>
    /\ fetched_content = NoneStr
    /\ context = <<>>
    /\ messages = NoMessages

\* The handler's variables when no request is being served.
AskCleared ==
    /\ request = NoRequest
    /\ LocalsCleared
    /\ response = NoResponse
    /\ failures = <<>>
    /\ escaped = ""

AskOff == ask_pc = "off" /\ AskCleared

\* api.py:119-122: a request arrives.
Receive(req) ==
    /\ ask_pc = "idle"
    /\ request' = req
    /\ ask_pc' = "embedding"
    /\ UNCHANGED <<platform, doc_embeddings, load_vars, slug_vars, rank_vars, link_vars,
                   ask_locals, response,
                   failures, escaped>>

\* api.py:131-132: the embedding call raises.
EmbedRaise(e) ==
    /\ ask_pc = "embedding"
    /\ failures' = Append(failures, "embedding")
    /\ response' = ErrorResponse("Embedding error: ", e)
    /\ ask_pc' = "responded"
    /\ UNCHANGED <<platform, doc_embeddings, load_vars, slug_vars, rank_vars, link_vars,
                   request, ask_locals,
                   escaped>>

\* api.py:153-184, reached with the context parts complete: the context is
\* joined, the messages are composed and the completion call is made.
CallCompletion(parts) ==
    /\ context' = Join(parts, Separator)
    /\ messages' = Messages(request.question, Join(parts, Separator), request.image)
    /\ ask_pc' = "completing"

\* api.py:130-147: the embedding call returns q; the store is ranked, the
\* texts and links of the top records are collected; with a link in the
\* request the handler awaits fetch_url_content, without one it goes on to
\* the completion call.
EmbedReturn(q) ==
    /\ ask_pc = "embedding"
    /\ query_embedding' = q
    /\ doc_embeddings' = find_top_k_similar_docs(q, doc_embeddings, TopK)
    /\ LET docs == find_top_k_similar(q, doc_embeddings, TopK)
           exc  == LinkLoopRaises(docs, platform)
       IN  /\ top_docs' = docs
           /\ context_parts' = ContextParts(docs)
           /\ IF exc /= ""
              THEN /\ escaped' = exc
                   /\ ask_pc' = "raised"
                   /\ UNCHANGED <<generated_links, context, messages>>
              ELSE /\ generated_links' = AppendDocLinks(<<>>, docs, platform)
                   /\ UNCHANGED escaped
                   /\ IF TruthyStr(request.link)
                      THEN /\ ask_pc' = "fetching"
                           /\ UNCHANGED <<context, messages>>
                      ELSE CallCompletion(ContextParts(docs))
    /\ UNCHANGED <<platform, load_vars, slug_vars, rank_vars, link_vars, request,
                   fetched_content, response, failures>>

\* api.py:147: fetch_url_content is bound nowhere in api.py, so the await
\* raises NameError, which no handler catches.
FetchRaise ==
    /\ ask_pc = "fetching"
    /\ escaped' = "NameError"
    /\ ask_pc' = "raised"
    /\ UNCHANGED <<platform, doc_embeddings, load_vars, slug_vars, rank_vars, link_vars,
                   request, ask_locals,
                   response, failures>>

\* api.py:147-153 with a fetch_url_content that returns the page's text, or
\* nothing: fetched content is appended to the context parts and the link to
\* the generated links; then the completion call is made.
FetchReturn(content) ==
    /\ ask_pc = "fetching"
    /\ fetched_content' = content
    /\ LET parts == IF TruthyStr(content)
                    THEN Append(context_parts, ContentPart(request.link, content))
                    ELSE context_parts
       IN  /\ context_parts' = parts
           /\ CallCompletion(parts)
    /\ generated_links' = IF TruthyStr(content)
                          THEN Append(generated_links, UserLink(request.link))
                          ELSE generated_links
    /\ UNCHANGED <<platform, doc_embeddings, load_vars, slug_vars, rank_vars, link_vars,
                   request, query_embedding,
                   top_docs, response, failures, escaped>>

\* api.py:189-195 and 216-226: the completion call returns; the response
\* carries the stripped answer and the links.
CompleteReturn(content) ==
    /\ ask_pc = "completing"
    /\ response' = AnswerResponse(content)
    /\ ask_pc' = "responded"
    /\ UNCHANGED <<platform, doc_embeddings, load_vars, slug_vars, rank_vars, link_vars,
                   request, ask_locals,
                   failures, escaped>>

\* api.py:196-214: the completion call raises; with an image the call is
\* made again without it, without one the error response is returned.
CompleteRaise(e) ==
    /\ ask_pc = "completing"
    /\ failures' = Append(failures, "completion")
    /\ IF TruthyStr(request.image)
       THEN /\ messages' = MessagesWithoutImage(request.question, context)
            /\ ask_pc' = "retrying"
            /\ UNCHANGED response
       ELSE /\ response' = ErrorResponse("Error generating response: ", e)
            /\ ask_pc' = "responded"
            /\ UNCHANGED messages
    /\ UNCHANGED <<platform, doc_embeddings, load_vars, slug_vars, rank_vars, link_vars,
                   request, query_embedding,
                   top_docs, context_parts, generated_links, fetched_content, context,
                   escaped>>

\* api.py:203-210 and 216-226: the retry returns.
RetryReturn(content) ==
    /\ ask_pc = "retrying"
    /\ response' = AnswerResponse(content)
    /\ ask_pc' = "responded"
    /\ UNCHANGED <<platform, doc_embeddings, load_vars, slug_vars, rank_vars, link_vars,
                   request, ask_locals,
                   failures, escaped>>

\* api.py:211-212: the retry raises too.
RetryRaise(e) ==
    /\ ask_pc = "retrying"
    /\ failures' = Append(failures, "retry")
    /\ response' = ErrorResponse("Error generating response: ", e)
    /\ ask_pc' = "responded"
    /\ UNCHANGED <<platform, doc_embeddings, load_vars, slug_vars, rank_vars, link_vars,
                   request, ask_locals,
                   escaped>>

\* The call is over (its response returned or its exception propagated): the
\* locals are gone and the handler can be called again.
Finish ==
    /\ ask_pc \in {"responded", "raised"}
    /\ ask_pc' = "idle"
    /\ request' = NoRequest
    /\ query_embedding' = <<0, 0>>
    /\ top_docs' = <<>>
    /\ context_parts' = <<>>
    /\ generated_links' = <<>>
    /\ fetched_content' = NoneStr
    /\ context' = <<>>
    /\ messages' = NoMessages
    /\ response' = NoResponse
    /\ failures' = <<>>
    /\ escaped' = ""
    /\ UNCHANGED <<platform, doc_embeddings, load_vars, slug_vars, rank_vars, link_vars>>

-----------------------------------------------------------------------------
(* The ranker on its own: a store and a query are drawn, find_top_k_similar *)
(* runs once with some k.                                                   *)

ZeroVec == <<0, 0>>

RankVecs == {ZeroVec, <<1, 0>>, <<0, 1>>, <<-1, 0>>}

RankQueries == {<<1, 0>>, <<1, 1>>}

RankStores ==
    {[i \in 1..Len(es) |-> DocumentRecord(<<"x">>, es[i], "course", CourseMeta(Str_intro_md))]
        : es \in SeqsUpTo(RankVecs, MaxStore) \ {<<>>}}

\* The score find_top_k_similar gave store record i.
RankScore(i) == cosine_similarity(rank_query, doc_embeddings[i].embedding)

LinkIdle == DocumentRecord(<<>>, ZeroVec, "None", NoMeta)

RankIdle == rank_query = ZeroVec /\ rank_k = 0 /\ rank_out = <<>> /\ rank_pc = "off"

LinkHarnessIdle == link_rec = LinkIdle /\ link_out = Returned(<<>>) /\ link_pc = "off"

NoOutcome == [docs |-> <<>>, raised |-> ""]

LoadIdle == store_file = <<>> /\ load_pc = "off" /\ load_out = NoOutcome

SlugIdle == slug_in = <<>> /\ slug_text = <<>> /\ slug_prev = <<>> /\ slug_passes = 0

InitRank ==
    /\ platform = "posix"
    /\ doc_embeddings \in RankStores
    /\ rank_query \in RankQueries
    /\ rank_k = 0
    /\ rank_out = <<>>
    /\ rank_pc = "ready"
    /\ LinkHarnessIdle
    /\ AskOff
    /\ LoadIdle
    /\ SlugIdle

\* One call find_top_k_similar(rank_query, doc_embeddings, k).
Rank(k) ==
    /\ rank_pc = "ready"
    /\ rank_k' = k
    /\ rank_out' = TopKIndices(rank_query, doc_embeddings, k)
    /\ rank_pc' = "ranked"
    /\ UNCHANGED <<platform, doc_embeddings, load_vars, slug_vars, rank_query, link_vars, ask_vars>>

NextRank == \E k \in 1..(MaxStore + 1) : Rank(k)

SpecRank == InitRank /\ [][NextRank]_vars

-----------------------------------------------------------------------------
(* The link synthesizer on its own: generate_link runs once on a record.    *)

LinkTags == {"discourse", "course", "post", "blog", "None"}

LinkTopicIds == {NoneInt, 5}

LinkPostNumbers == {NoneInt, 2}

LinkTitles == {NoneStr, Str_HiThere, <<"-", " ", "A", "_", "b", " ">>}

LinkSlugs == {NoneStr, Str_hi_there}

PathAlphabet == {"a", "b", ".", "/", "\\"}

\* Relative paths of files, as markdown_scraper.py writes them (relative_to
\* the repository root): no leading and no trailing separator.
LinkPaths ==
    {p \in SeqsUpTo(PathAlphabet, MaxPathLen) :
        p = <<>> \/ (p[1] \notin {"/", "\\"} /\ p[Len(p)] \notin {"/", "\\"})}
        \cup {NoneStr, Str_intro_md, Str_intro_md_nt}

\* The record generate_link is handed: a tag and a meta with every field drawn.
LinkRecord(tag, t, n, title, sl, path) ==
    DocumentRecord(<<"x">>, <<1, 0>>, tag,
                   [post_number |-> n, slug |-> sl, source |-> path,
                    topic_id |-> t, topic_title |-> title])

InitLink ==
    /\ platform \in {"posix", "nt"}
    /\ doc_embeddings = <<>>
    /\ RankIdle
    /\ link_rec = LinkIdle
    /\ link_out = Returned(<<>>)
    /\ link_pc = "ready"
    /\ AskOff
    /\ LoadIdle
    /\ SlugIdle

\* One call generate_link(rec).
Synthesize(rec) ==
    /\ link_pc = "ready"
    /\ link_rec' = rec
    /\ link_out' = generate_link(rec, platform)
    /\ link_pc' = "done"
    /\ UNCHANGED <<platform, doc_embeddings, load_vars, slug_vars, rank_vars, ask_vars>>

NextLink ==
    /\ link_pc = "ready"
    /\ \E tag \in LinkTags, t \in LinkTopicIds, n \in LinkPostNumbers,
          title \in LinkTitles, sl \in LinkSlugs, path \in LinkPaths :
           Synthesize(LinkRecord(tag, t, n, title, sl, path))

SpecLink == InitLink /\ [][NextLink]_vars

-----------------------------------------------------------------------------
(* The service: a store is loaded, then requests are served one at a time.  *)

Str_A == <<"A">>

Str_B == <<"B">>

\* A text longer than the display length.
Str_Long == [i \in 1..(DisplayLen + 5) |-> IF i = 1 THEN "L" ELSE "o"]

\* Two course records of the same page (one path written on Windows), and a
\* forum record.
DocA == DocumentRecord(Str_A, <<1, 0>>, "course", CourseMeta(Str_intro_md))

DocA2 == DocumentRecord(Str_Long, <<1, 1>>, "course", CourseMeta(Str_intro_md_nt))

DocB == DocumentRecord(Str_B, <<0, 1>>, "discourse", DiscourseMeta(5, 2, Str_HiThere))

AskDocs == {DocA, DocA2, DocB}

AskStores == SeqsUpTo(AskDocs, MaxAskStore) \ {<<>>}

AskQueries == {<<1, 0>>, <<0, 1>>}

AskImages == {NoneStr, <<"Q", "k">>, <<"https://", "i">>}

AskLinks == {NoneStr, <<"t", "t">>}

AskRequests == {[image |-> im, link |-> li, question |-> <<"q">>] : im \in AskImages, li \in AskLinks}

FetchedContents == {NoneStr, <<"w", "e", "b">>}

Completions == {<<" ", "o", "k", "\n">>}

Errors == {<<"timeout">>}

\* (The platform only matters to generate_link's course branch, which
\* SpecLink explores on both; the service is taken on a POSIX host.)
InitAsk ==
    /\ platform = "posix"
    /\ doc_embeddings \in AskStores
    /\ RankIdle
    /\ LinkHarnessIdle
    /\ ask_pc = "idle"
    /\ AskCleared
    /\ LoadIdle
    /\ SlugIdle

NextAsk ==
    \/ \E req \in AskRequests : Receive(req)
    \/ \E e \in Errors : EmbedRaise(e)
    \/ \E q \in AskQueries : EmbedReturn(q)
    \/ FetchRaise
    \/ \E content \in FetchedContents : FetchReturn(content)
    \/ \E content \in Completions : CompleteReturn(content)
    \/ \E e \in Errors : CompleteRaise(e)
    \/ \E content \in Completions : RetryReturn(content)
    \/ \E e \in Errors : RetryRaise(e)
    \/ Finish

SpecAsk == InitAsk /\ [][NextAsk]_vars

-----------------------------------------------------------------------------
(* Start-up: the module loads the store file (api.py:33-34), after which    *)
(* the store is queried.                                                    *)

MaxFile == 3

\* A record of the file that has no "embedding" key.
RecordWithoutEmbedding(text, source, meta) == [meta |-> meta, source |-> source, text |-> text]

HasEmbedding(rec) == "embedding" \in DOMAIN rec

\* api.py:28-30: json.load returns the file's list with every element of it,
\* as stored; no element is inspected.
load_embeddings(records) == [i \in 1..Len(records) |-> records[i]]

\* find_top_k_similar on a store that may hold records without "embedding":
\* doc["embedding"] (api.py:44) raises KeyError at the first such record, and
\* nothing in the function catches it.
find_top_k_similar_outcome(query_vec, docs, k) ==
    IF \E i \in 1..Len(docs) : ~HasEmbedding(docs[i])
    THEN [docs |-> <<>>, raised |-> "KeyError"]
    ELSE [docs |-> find_top_k_similar(query_vec, docs, k), raised |-> ""]

DocNoEmbedding == RecordWithoutEmbedding(<<"M">>, "course", CourseMeta(Str_intro_md))

FileRecords == {DocA, DocB, DocNoEmbedding}

StoreFiles == SeqsUpTo(FileRecords, MaxFile)

InitLoad ==
    /\ platform = "posix"
    /\ doc_embeddings = <<>>
    /\ RankIdle
    /\ LinkHarnessIdle
    /\ AskOff
    /\ SlugIdle
    /\ store_file \in StoreFiles
    /\ load_pc = "unloaded"
    /\ load_out = NoOutcome

\* api.py:34: doc_embeddings = load_embeddings(EMBEDDINGS_PATH).
Load ==
    /\ load_pc = "unloaded"
    /\ doc_embeddings' = load_embeddings(store_file)
    /\ load_pc' = "loaded"
    /\ UNCHANGED <<platform, store_file, load_out, slug_vars, rank_vars, link_vars, ask_vars>>

\* api.py:135: a query over the loaded store.
Query(q, k) ==
    /\ load_pc = "loaded"
    /\ load_out' = find_top_k_similar_outcome(q, doc_embeddings, k)
    /\ load_pc' = "queried"
    /\ UNCHANGED <<platform, doc_embeddings, store_file, slug_vars, rank_vars, link_vars,
                   ask_vars>>

NextLoad ==
    \/ Load
    \/ \E q \in AskQueries, k \in 1..(MaxFile + 1) : Query(q, k)

SpecLoad == InitLoad /\ [][NextLoad]_vars

-----------------------------------------------------------------------------
(* slugify on its own: a string is drawn and slugify is applied to it, then *)
(* to its own result.                                                       *)

MaxSlugLen == 5

\* An upper-case letter, a lower-case letter, a digit, a hyphen, two kinds of
\* whitespace and a character the first substitution removes.
SlugAlphabet == {"A", "b", "1", "-", " ", "\t", "_"}

SlugInputs == SeqsUpTo(SlugAlphabet, MaxSlugLen)

InitSlug ==
    /\ platform = "posix"
    /\ doc_embeddings = <<>>
    /\ RankIdle
    /\ LinkHarnessIdle
    /\ AskOff
    /\ LoadIdle
    /\ slug_in \in SlugInputs
    /\ slug_text = slug_in
    /\ slug_prev = <<>>
    /\ slug_passes = 0

\* One call slugify(slug_text).
Slugify ==
    /\ slug_passes < 2
    /\ slug_prev' = slug_text
    /\ slug_text' = slugify(slug_text)
    /\ slug_passes' = slug_passes + 1
    /\ UNCHANGED <<platform, doc_embeddings, slug_in, load_vars, rank_vars, link_vars,
                   ask_vars>>

NextSlug == Slugify

SpecSlug == InitSlug /\ [][NextSlug]_vars

-----------------------------------------------------------------------------
(* Properties of the ranker (checked under SpecRank). *)

\* C1: find_top_k_similar returns exactly min(k, |store|) records, and the
\* score of each returned record is >= the score of the record after it.
C1_TopKDescending ==
    rank_pc = "ranked" =>
        /\ Len(rank_out) = Min(rank_k, Len(doc_embeddings))
        /\ \A j \in 1..(Len(rank_out) - 1) :
              ScoreGe(RankScore(rank_out[j]), RankScore(rank_out[j + 1]))

\* C2: the ranking is stable.  Two returned records with exactly equal scores
\* keep their store order, and of two store records with exactly equal scores
\* the later one is returned only if the earlier one is.
C2_StableRanking ==
    rank_pc = "ranked" =>
        /\ \A a, b \in 1..Len(rank_out) :
              (a < b /\ ScoreEq(RankScore(rank_out[a]), RankScore(rank_out[b])))
                  => rank_out[a] < rank_out[b]
        /\ \A i, j \in 1..Len(doc_embeddings) :
              (i < j /\ ScoreEq(RankScore(i), RankScore(j)) /\ j \in Range(rank_out))
                  => i \in Range(rank_out)

\* C3: a zero-norm record (NaN score) comes after every record with a defined
\* score, is returned only once every defined-score record is, and the
\* defined-score records are in descending order of score.
C3_ZeroNormLast ==
    rank_pc = "ranked" =>
        /\ \A a, b \in 1..Len(rank_out) :
              a < b => ~(RankScore(rank_out[a]).nan /\ ~RankScore(rank_out[b]).nan)
        /\ (\E a \in 1..Len(rank_out) : RankScore(rank_out[a]).nan)
              => \A i \in 1..Len(doc_embeddings) :
                    ~RankScore(i).nan => i \in Range(rank_out)
        /\ \A a, b \in 1..Len(rank_out) :
              (a < b /\ ~RankScore(rank_out[a]).nan /\ ~RankScore(rank_out[b]).nan)
                  => ScoreGe(RankScore(rank_out[a]), RankScore(rank_out[b]))

-----------------------------------------------------------------------------
(* Properties of the link synthesizer (checked under SpecLink). *)

\* The tags the link synthesizer is specified to recognize.
RecognizedTags == {"discourse", "post", "course"}

\* C5: a "discourse" record without topic id, post number or topic title, and
\* a "course" record without a file path, get the default URL; generate_link
\* raises on no record.
C5_MissingFieldsDefault ==
    link_pc = "done" =>
        /\ link_out.raised = ""
        /\ ( /\ link_rec.source = "discourse"
             /\ \/ link_rec.meta.topic_id = NoneInt
                \/ link_rec.meta.post_number = NoneInt
                \/ link_rec.meta.topic_title = NoneStr )
              => link_out = Returned(DefaultUrl)
        /\ (link_rec.source = "course" /\ link_rec.meta.source = NoneStr)
              => link_out = Returned(DefaultUrl)

\* C6: a record whose source tag is missing or unrecognized gets the default
\* URL, without an exception, whatever its meta holds.
C6_UnknownTagDefault ==
    (link_pc = "done" /\ link_rec.source \notin RecognizedTags)
        => link_out = Returned(DefaultUrl)

\* C6 witness: generate_link has run on an untagged record whose meta holds
\* forum ids, a title and a file path, and returned the default URL.
C6_Witness ==
    /\ link_pc = "done"
    /\ link_rec.source = "None"
    /\ link_rec.meta.topic_id = 5
    /\ link_rec.meta.post_number = 2
    /\ link_rec.meta.topic_title = Str_HiThere
    /\ link_rec.meta.source = Str_intro_md
    /\ link_out = Returned(DefaultUrl)

\* The slug C7 allows a forum record: the slugified title, or the legacy
\* meta slug field.
ForumSlugs(m) ==
    {slugify(m.topic_title) : x \in {1} \cap (IF m.topic_title = NoneStr THEN {} ELSE {1})}
        \cup (IF m.slug = NoneStr THEN {} ELSE {m.slug})

\* C7: a "discourse" or "post" record holding a topic id and a post number
\* gets {forum base}/t/{slug}/{topicId}/{postNumber}, the slug being the
\* slugified title or the legacy meta slug.
C7_ForumLink ==
    ( /\ link_pc = "done"
      /\ link_rec.source \in {"discourse", "post"}
      /\ link_rec.meta.topic_id /= NoneInt
      /\ link_rec.meta.post_number /= NoneInt
      /\ ForumSlugs(link_rec.meta) /= {} )
        => \E slug \in ForumSlugs(link_rec.meta) :
              link_out = Returned(ForumBase \o slug \o <<"/">> \o IntStr(link_rec.meta.topic_id)
                                    \o <<"/">> \o IntStr(link_rec.meta.post_number))

\* The final component of a path, either separator being a boundary.
FinalComponent(p) == SubSeq(p, LastIndexOf(p, {"/", "\\"}) + 1, Len(p))

\* A file name without its extension: cut at its last dot, unless that dot is
\* one of its leading dots.
Stem(name) ==
    LET dotIndex == LastIndexOf(name, {"."})
    IN  IF \E j \in 1..(dotIndex - 1) : name[j] /= "." THEN SubSeq(name, 1, dotIndex - 1)
        ELSE name

\* C8: a "course" record with a file path gets {course base}/#/{slug}, the
\* slug being the slugified final path component without its extension, with
\* both '/' and '\' as component boundaries.
C8_CourseLink ==
    (link_pc = "done" /\ link_rec.source = "course" /\ link_rec.meta.source /= NoneStr)
        => link_out = Returned(CourseBase \o slugify(Stem(FinalComponent(link_rec.meta.source))))

-----------------------------------------------------------------------------
(* Properties of the request handler (checked under SpecAsk). *)

\* The URL generate_link gives the j-th ranked record of the current request.
TopDocUrl(j) == generate_link(top_docs[j], platform).url

\* C4: in every response no two links have the same url, and the text of the
\* link for a URL is the display text of the first ranked record that
\* synthesizes to that URL.
C4_LinksUniqueFirstText ==
    ask_pc = "responded" =>
        /\ \A i, j \in 1..Len(response.links) :
              i /= j => response.links[i].url /= response.links[j].url
        /\ \A i \in 1..Len(response.links) :
              \E d \in 1..Len(top_docs) :
                 /\ TopDocUrl(d) = response.links[i].url
                 /\ \A e \in 1..(d - 1) : TopDocUrl(e) /= response.links[i].url
                 /\ response.links[i].text = DisplayText(top_docs[d].text)

IsErrorResponse(r) ==
    /\ r.answer /= <<>>
    /\ r.answer[1] \in {"Embedding error: ", "Error generating response: "}
    /\ Tail(r.answer) \in Errors

\* C9 as stated: once the embedding call or a completion call has raised, the
\* handler returns an error response with no links (also when the failed
\* call was the completion with an image, retried without it), and no
\* exception leaves the handler.
C9_AnyFailureGivesErrorResponse ==
    failures /= <<>> =>
        /\ ask_pc /= "raised"
        /\ ask_pc = "responded" => (IsErrorResponse(response) /\ response.links = <<>>)

\* The request's last external call raised: the embedding call, the
\* completion call of a request without image, or the retry.
FinalCallFailed ==
    \/ failures = <<"embedding">>
    \/ failures = <<"completion">> /\ ~TruthyStr(request.image)
    \/ failures = <<"completion", "retry">>

\* C9, amended: when the embedding call raises, or a completion call raises
\* and no retry succeeds after it (the request has no image, or the retry
\* raises too), the handler returns an error response with no links; when the
\* completion with an image raises and the retry without it returns, the
\* response is the ordinary one, with the retry's answer and the links; and
\* after a failed call no exception leaves the handler.
C9_FinalFailureGivesErrorResponse ==
    /\ failures /= <<>> => ask_pc /= "raised"
    /\ (ask_pc = "responded" /\ FinalCallFailed)
          => (IsErrorResponse(response) /\ response.links = <<>>)
    /\ (ask_pc = "responded" /\ ~FinalCallFailed)
          => /\ ~IsErrorResponse(response)
             /\ response.links = ResponseLinks(request.link, top_docs, platform)
             /\ failures \in {<<>>, <<"completion">>}

\* C9 witness: a request with an image whose completion call and retry both
\* raised, answered by the error response, after links had been collected.
C9_Witness ==
    /\ ask_pc = "responded"
    /\ failures = <<"completion", "retry">>
    /\ generated_links /= <<>>
    /\ IsErrorResponse(response)
    /\ response.links = <<>>

\* C10: when the completion call is made, the context is the texts of all
\* top-k ranked records in rank order, followed, when the request has a link
\* and content was fetched from it, by that content (under its "Content from
\* <link>:" label), joined by the separator; it is what the messages carry.
C10_ContextComplete ==
    ask_pc \in {"completing", "retrying"} =>
        LET ranked == TopKIndices(query_embedding, doc_embeddings, TopK)
            texts  == [j \in 1..Len(ranked) |-> doc_embeddings[ranked[j]].text]
            extra  == IF TruthyStr(request.link) /\ TruthyStr(fetched_content)
                      THEN << <<"Content from ">> \o request.link \o <<":\n">>
                                 \o fetched_content >>
                      ELSE <<>>
        IN  /\ Len(ranked) = Min(TopK, Len(doc_embeddings))
            /\ context = Join(texts \o extra, "\n\n---\n\n")
            /\ messages.user_text = <<"Question: ">> \o request.question
                                       \o <<"\n\nContext:\n">> \o context

\* C10 witness: a request with a link reached the completion call over a
\* store of more than k records, with fetched content in its context.
C10_Witness ==
    /\ ask_pc = "completing"
    /\ Len(doc_embeddings) > TopK
    /\ Len(top_docs) = TopK
    /\ TruthyStr(request.link)
    /\ TruthyStr(fetched_content)
    /\ Len(context_parts) = TopK + 1

-----------------------------------------------------------------------------
(* Properties of the store load (checked under SpecLoad). *)

\* C11: a file record without the "embedding" field does not abort the load
\* and is skipped: the loaded store is the file's records that have an
\* embedding, in file order, and a query over the loaded store does not fail.
C11_MalformedRecordSkipped ==
    /\ load_pc \in {"loaded", "queried"}
          => /\ doc_embeddings = SelectSeq(store_file, HasEmbedding)
             /\ \A i \in 1..Len(doc_embeddings) : HasEmbedding(doc_embeddings[i])
    /\ load_pc = "queried" => load_out.raised = ""

-----------------------------------------------------------------------------
(* Properties of slugify (checked under SpecSlug). *)

SlugOutputSet == Range(LowerChars) \cup Range(DigitChars) \cup {"-"}

\* A string of a-z, 0-9 and single hyphens with no hyphen at either end.
WellFormedSlug(t) ==
    /\ \A i \in 1..Len(t) : t[i] \in SlugOutputSet
    /\ \A i \in 1..(Len(t) - 1) : ~(t[i] = "-" /\ t[i + 1] = "-")
    /\ t /= <<>> => (t[1] /= "-" /\ t[Len(t)] /= "-")

\* C12: slugify is idempotent, slugify(slugify(s)) = slugify(s): every result
\* of slugify holds only a-z, 0-9 and single hyphens, none of them leading or
\* trailing, and the second pass returns its argument unchanged.
C12_SlugifyIdempotent ==
    /\ slug_passes >= 1 => WellFormedSlug(slug_text)
    /\ slug_passes = 2 => (slug_text = slug_prev /\ slug_prev = slugify(slug_in))

\* The second pass has run on the slug of an input that the first pass had
\* to lower-case, to filter and to collapse.
C12_Witness ==
    /\ slug_passes = 2
    /\ slug_in = <<"A", "_", " ", "-", "b">>
    /\ slug_text = <<"a", "-", "b">>

-----------------------------------------------------------------------------
(* Properties of the store under the service (checked under SpecAsk). *)

====
